---- MODULE Spec2Model ----
(***************************************************************************)
(* Model of boiler.py: the fixed-step boiler simulation driven by a PID    *)
(* controller with conditional integration and a dynamic integral bound    *)
(* (simulate_boiler_pid), the explicit Euler step of the tank energy       *)
(* balance (boiler_step) and the boxcar draw profile (make_q_out_profile). *)
(*                                                                         *)
(* Python floats are modelled as exact rationals <<num, den>> with         *)
(* den > 0 and gcd(num, den) = 1, so that equality of values is equality   *)
(* of pairs.  Rounding of IEEE doubles is outside the model.               *)
(***************************************************************************)
EXTENDS Integers, Sequences, FiniteSets, TLC

VARIABLES
    T_set, Kp, Ti, Td, params, dt, total_time, P_max, q_out_profile,
    pc, n, k, T, integ, e_prev, Ki, Kd, integ_max,
    time_hist, T_hist, P_hist, q_hist, P_term_hist, I_term_hist, D_term_hist,
    e_hist, acc_hist, integ_hist

args == <<T_set, Kp, Ti, Td, params, dt, total_time, P_max, q_out_profile>>
locals == <<n, k, T, integ, e_prev, Ki, Kd, integ_max>>
columns == <<time_hist, T_hist, P_hist, q_hist, P_term_hist, I_term_hist, D_term_hist>>
ghosts == <<e_hist, acc_hist, integ_hist>>
vars == <<args, pc, locals, columns, ghosts>>

-----------------------------------------------------------------------------
(* Exact rational arithmetic standing for Python's float arithmetic.       *)

Abs(x) == IF x < 0 THEN -x ELSE x

RECURSIVE GCD(_, _)
GCD(a, b) == IF b = 0 THEN a ELSE GCD(b, a % b)

Norm(a, b) ==
    LET s == IF b < 0 THEN -1 ELSE 1
        g == GCD(Abs(a), Abs(b))
    IN  <<(s * a) \div g, (s * b) \div g>>

Q(i) == <<i, 1>>
Zero == Q(0)
One == Q(1)

Add(x, y) == Norm(x[1] * y[2] + y[1] * x[2], x[2] * y[2])
Neg(x) == <<-x[1], x[2]>>
Sub(x, y) == Add(x, Neg(y))
Mul(x, y) == Norm(x[1] * y[1], x[2] * y[2])
Div(x, y) == Norm(x[1] * y[2], x[2] * y[1])
Lt(x, y) == x[1] * y[2] < y[1] * x[2]
Le(x, y) == x[1] * y[2] <= y[1] * x[2]
Gt(x, y) == Lt(y, x)
Ge(x, y) == Le(y, x)
QAbs(x) == <<Abs(x[1]), x[2]>>

\* Python's max(a, b) and min(a, b) on floats.
PyMax(a, b) == IF Gt(b, a) THEN b ELSE a
PyMin(a, b) == IF Lt(b, a) THEN b ELSE a

\* Python's int(x) on a float: truncation toward zero.
PyInt(x) == IF x[1] >= 0 THEN x[1] \div x[2] ELSE -((-x[1]) \div x[2])

\* float('inf'), only ever stored, never used in arithmetic.
Inf == <<1, 0>>

-----------------------------------------------------------------------------
(* Bounds of the explored inputs.                                          *)

MaxDt == 2
MaxTotalTime == 4

Dts == -1 .. MaxDt
TotalTimes == -1 .. MaxTotalTime
TSets == {2, 8}
Kps == {0, 1, 3}
Tis == {0, 1, 2}
Tds == {0, 1}
PMaxs == {0, 3}
TOuts == {1, 5}
KLosses == {0, 1}

BoilerParams(C, k_loss, k_draw, T_out, T_cold) ==
    [C |-> Q(C), k_loss |-> Q(k_loss), k_draw |-> Q(k_draw),
     T_out |-> Q(T_out), T_cold |-> Q(T_cold)]

ParamSets == {BoilerParams(4, kl, 1, to, 1) : kl \in KLosses, to \in TOuts}

\* The three shapes of q_out_profile the driver accepts: None, a number,
\* and the callable built by make_q_out_profile.
NoProfile == [kind |-> "none"]
ConstProfile(v) == [kind |-> "const", flow_lps |-> Q(v)]
make_q_out_profile(flow_lps, start_s, end_s) ==
    [kind |-> "boxcar", flow_lps |-> Q(flow_lps),
     start_s |-> Q(start_s), end_s |-> Q(end_s)]

Profiles == {NoProfile, ConstProfile(2), make_q_out_profile(2, 0, 1)}

-----------------------------------------------------------------------------
(* The pure pieces of boiler.py.                                           *)

\* _profile(t) of make_q_out_profile.
Profile(p, t) ==
    IF Le(p.start_s, t) /\ Le(t, p.end_s) THEN p.flow_lps ELSE Zero

\* The q_out selection at the head of the loop body.
QOut(p, t) ==
    IF p.kind = "boxcar" THEN Profile(p, t)
    ELSE IF p.kind = "none" THEN Zero
    ELSE p.flow_lps

\* An energy balance with the sign of the two loss terms flipped.
boiler_step_SignFlip(Tc, P_in, q_out, par, h) ==
    LET P_loss == Mul(par.k_loss, Sub(Tc, par.T_out))
        P_draw == Mul(Mul(par.k_draw, q_out), Sub(Tc, par.T_cold))
        dTdt == Div(Add(Add(P_in, P_loss), P_draw), par.C)
    IN  Add(Tc, Mul(h, dTdt))

boiler_step(Tc, P_in, q_out, par, h) ==
    LET P_loss == Mul(par.k_loss, Sub(Tc, par.T_out))
        P_draw == Mul(Mul(par.k_draw, q_out), Sub(Tc, par.T_cold))
        dTdt == Div(Sub(Sub(P_in, P_loss), P_draw), par.C)
    IN  Add(Tc, Mul(h, dTdt))

\* A driver that runs one tick too many.
NumTicks_OneMore(tt, h) == PyInt(Div(tt, h)) + 1

\* n = int(total_time / dt); the caller guarantees h # 0.
NumTicks(tt, h) == PyInt(Div(tt, h))

\* A parallel-form gain Ki = 1/Ti when Kp = 0.
IntegralGain_Parallel(kp, ti) ==
    IF Gt(ti, Zero) THEN (IF kp = Zero THEN Div(One, ti) ELSE Div(kp, ti)) ELSE Zero

IntegralGain(kp, ti) == IF Gt(ti, Zero) THEN Div(kp, ti) ELSE Zero
DerivativeGain(kp, td) == IF Gt(td, Zero) THEN Mul(kp, td) ELSE Zero

IntegMax(par, tset, ki) ==
    IF Gt(ki, Zero) THEN Div(Mul(par.k_loss, Sub(tset, par.T_out)), ki) ELSE Inf

\* A previous error that starts from zero.
InitialError_Zero(tset, Tc) == Zero

InitialError(tset, Tc) == Sub(tset, Tc)

\* A run that starts from the ambient temperature.
InitialTemperature_Ambient(par) == par.T_out

\* The initial state: cold water from the mains.
InitialTemperature(par) == par.T_cold

\* The first row of every column.
InitialRow(T0) ==
    [time |-> Zero, temperature |-> T0, power |-> Zero, q_out |-> Zero,
     P_term |-> Zero, I_term |-> Zero, D_term |-> Zero]

PTerm(kp, e) == Mul(kp, e)
\* An integral term that forgets its gain.
ITerm_NoGain(ki, ig) == IF Gt(ki, Zero) THEN ig ELSE Zero

ITerm(ki, ig) == IF Gt(ki, Zero) THEN Mul(ki, ig) ELSE Zero
DTerm(kd, e, ep, h) == IF Gt(kd, Zero) THEN Div(Mul(kd, Sub(e, ep)), h) ELSE Zero

\* A saturation that forgets the upper limit.
Saturate_NoUpper(u, pmax) == PyMax(Zero, u)

Saturate(u, pmax) == PyMax(Zero, PyMin(u, pmax))

\* Plain integration, without the saturation test.
Accumulate_Always(ig, e, h, P_in, pmax) == Add(ig, Mul(e, h))

\* Conditional integration: the accumulation step.
Accumulate(ig, e, h, P_in, pmax) ==
    LET saturated_high == Ge(P_in, pmax) /\ Gt(e, Zero)
        saturated_low == Le(P_in, Zero) /\ Lt(e, Zero)
    IN  IF ~(saturated_high \/ saturated_low) THEN Add(ig, Mul(e, h)) ELSE ig

Band == 5

\* A dynamic bound whose band test is inverted.
DynamicBound_Inverted(ig, e, imax) ==
    IF Gt(e, Q(Band))
    THEN LET scale == PyMax(Zero, Div(e, Q(Band)))
             current_limit == Mul(imax, Add(One, scale))
         IN  PyMax(Neg(current_limit), PyMin(ig, current_limit))
    ELSE ig

\* Dynamic bound on the integral, active only while e < 5.
DynamicBound(ig, e, imax) ==
    IF Lt(e, Q(Band))
    THEN LET scale == PyMax(Zero, Div(e, Q(Band)))
             current_limit == Mul(imax, Add(One, scale))
         IN  PyMax(Neg(current_limit), PyMin(ig, current_limit))
    ELSE ig

\* The integral update of one tick (both steps), skipped unless Ki > 0.
IntegUpdate(ig, e, h, P_in, pmax, ki, imax) ==
    IF Gt(ki, Zero) THEN DynamicBound(Accumulate(ig, e, h, P_in, pmax), e, imax) ELSE ig

-----------------------------------------------------------------------------
(* The call simulate_boiler_pid(...) as a state machine.                   *)

Init ==
    /\ T_set \in {Q(x) : x \in TSets}
    /\ Kp \in {Q(x) : x \in Kps}
    /\ Ti \in {Q(x) : x \in Tis}
    /\ Td \in {Q(x) : x \in Tds}
    /\ params \in ParamSets
    /\ dt \in {Q(x) : x \in Dts}
    /\ total_time \in {Q(x) : x \in TotalTimes}
    /\ P_max \in {Q(x) : x \in PMaxs}
    /\ q_out_profile \in Profiles
    /\ pc = "call"
    /\ n = 0 /\ k = 0
    /\ T = Zero /\ integ = Zero /\ e_prev = Zero
    /\ Ki = Zero /\ Kd = Zero /\ integ_max = Zero
    /\ time_hist = <<>> /\ T_hist = <<>> /\ P_hist = <<>> /\ q_hist = <<>>
    /\ P_term_hist = <<>> /\ I_term_hist = <<>> /\ D_term_hist = <<>>
    /\ e_hist = <<>> /\ acc_hist = <<>> /\ integ_hist = <<>>

\* total_time / dt with dt = 0: ZeroDivisionError leaves the function.
SetupRaises ==
    /\ pc = "call"
    /\ dt = Zero
    /\ pc' = "raised"
    /\ UNCHANGED <<args, locals, columns, ghosts>>

\* Everything before the loop.
Setup ==
    /\ pc = "call"
    /\ dt # Zero
    /\ LET T0 == InitialTemperature(params)
           row == InitialRow(T0)
           ki == IntegralGain(Kp, Ti)
       IN  /\ n' = NumTicks(total_time, dt)
           /\ k' = 0
           /\ T' = T0
           /\ time_hist' = <<row.time>>
           /\ T_hist' = <<row.temperature>>
           /\ P_hist' = <<row.power>>
           /\ q_hist' = <<row.q_out>>
           /\ P_term_hist' = <<row.P_term>>
           /\ I_term_hist' = <<row.I_term>>
           /\ D_term_hist' = <<row.D_term>>
           /\ integ' = Zero
           /\ e_prev' = InitialError(T_set, T0)
           /\ Ki' = ki
           /\ Kd' = DerivativeGain(Kp, Td)
           /\ integ_max' = IntegMax(params, T_set, ki)
           /\ e_hist' = <<>>
           /\ acc_hist' = <<>>
           /\ integ_hist' = <<Zero>>
    /\ pc' = "loop"
    /\ UNCHANGED args

\* One iteration of `for k in range(n)`.
Tick ==
    /\ pc = "loop"
    /\ k < n
    /\ LET t == Mul(Q(k + 1), dt)
           q_out == QOut(q_out_profile, t)
           e == Sub(T_set, T)
           P_term == PTerm(Kp, e)
           I_term == ITerm(Ki, integ)
           D_term == DTerm(Kd, e, e_prev, dt)
           u == Add(Add(P_term, I_term), D_term)
           P_in == Saturate(u, P_max)
           acc == IF Gt(Ki, Zero) THEN Accumulate(integ, e, dt, P_in, P_max) ELSE integ
           ig == IntegUpdate(integ, e, dt, P_in, P_max, Ki, integ_max)
       IN  /\ integ' = ig
           /\ e_prev' = e
           /\ T' = boiler_step(T, P_in, q_out, params, dt)
           /\ time_hist' = Append(time_hist, t)
           /\ T_hist' = Append(T_hist, T')
           /\ P_hist' = Append(P_hist, P_in)
           /\ q_hist' = Append(q_hist, q_out)
           /\ P_term_hist' = Append(P_term_hist, P_term)
           /\ I_term_hist' = Append(I_term_hist, I_term)
           /\ D_term_hist' = Append(D_term_hist, D_term)
           /\ e_hist' = Append(e_hist, e)
           /\ acc_hist' = Append(acc_hist, acc)
           /\ integ_hist' = Append(integ_hist, ig)
    /\ k' = k + 1
    /\ UNCHANGED <<args, pc, n, Ki, Kd, integ_max>>

\* range(n) is exhausted (at once when n <= 0): the DataFrame is returned.
Return ==
    /\ pc = "loop"
    /\ k >= n
    /\ pc' = "returned"
    /\ UNCHANGED <<args, locals, columns, ghosts>>

Next == SetupRaises \/ Setup \/ Tick \/ Return

Spec == Init /\ [][Next]_vars

-----------------------------------------------------------------------------
(* Properties of the run.  Tick i (i = 1, 2, ...) produced row i + 1 of    *)
(* every column, read the integral integ_hist[i] and left integ_hist[i+1]. *)

Ticks == 1 .. Len(e_hist)
Rows == 1 .. Len(time_hist)
Started == pc \in {"loop", "returned"}
ValidTiming == Gt(dt, Zero) /\ Gt(total_time, Zero)

\* C1: with P_max >= 0 every value of the power column, the initial row
\* included, lies in [0, P_max].
C1_PowerWithinLimits ==
    Ge(P_max, Zero) =>
        \A i \in 1 .. Len(P_hist) : Le(Zero, P_hist[i]) /\ Le(P_hist[i], P_max)

\* A finished run in which the controller asked for more than P_max > 0 and
\* the emitted power was held at P_max.
C1_Witness ==
    /\ pc = "returned"
    /\ Gt(P_max, Zero)
    /\ \E i \in Ticks :
          /\ Gt(Add(Add(P_term_hist[i + 1], I_term_hist[i + 1]), D_term_hist[i + 1]), P_max)
          /\ P_hist[i + 1] = P_max

\* floor(total_time / dt) for positive total_time and dt.
FloorQuot(tt, h) == (tt[1] * h[2]) \div (tt[2] * h[1])

\* C2: with dt > 0 and total_time > 0 the returned series has exactly
\* floor(total_time/dt) + 1 rows, row i (counted from 1) carries the time
\* (i - 1) * dt, and all the columns have the same length.
C2_TimeAxis ==
    ValidTiming =>
        /\ \A i \in Rows : time_hist[i] = Mul(Q(i - 1), dt)
        /\ \A i \in Rows : i > 1 => Gt(time_hist[i], time_hist[i - 1])
        /\ \A c \in {T_hist, P_hist, q_hist, P_term_hist, I_term_hist, D_term_hist} :
              Len(c) = Len(time_hist)
        /\ pc = "returned" => Len(time_hist) = FloorQuot(total_time, dt) + 1

\* A finished run of several ticks whose total_time is no multiple of dt.
C2_Witness ==
    /\ pc = "returned"
    /\ Gt(dt, One)
    /\ Mul(Q(FloorQuot(total_time, dt)), dt) # total_time
    /\ Len(time_hist) >= 2

\* C3: a call with dt <= 0 or total_time <= 0 is rejected before any sample
\* is produced and never returns a series.
C3_InvalidTimingRejected ==
    (Le(dt, Zero) \/ Le(total_time, Zero)) =>
        (pc # "returned" /\ Len(time_hist) = 0)

\* The dynamic bound L of tick i, for Kp > 0 and Ti > 0.
DynamicLimit(i) ==
    LET ki == Div(Kp, Ti)
        integral_max == Div(Mul(params.k_loss, Sub(T_set, params.T_out)), ki)
    IN  Mul(integral_max, Add(One, PyMax(Zero, Div(e_hist[i], Q(5)))))

\* C4 as stated: in any run with Ti > 0 (of valid timing, and with Kp > 0 so
\* that Ki # 0 and L is defined), after every tick with e < 5 the integral
\* satisfies |integral| <= L.
C4_AsStated ==
    (ValidTiming /\ Gt(Ti, Zero) /\ Gt(Kp, Zero)) =>
        \A i \in Ticks :
            Lt(e_hist[i], Q(5)) => Le(QAbs(integ_hist[i + 1]), DynamicLimit(i))

\* C4, amended: the same bound in every run with Ti > 0, Kp > 0 and
\* T_set >= T_out, the runs in which L is not negative.
C4_IntegralWithinDynamicBound ==
    (Gt(Ti, Zero) /\ Gt(Kp, Zero) /\ Ge(T_set, params.T_out)) =>
        \A i \in Ticks :
            Lt(e_hist[i], Q(5)) => Le(QAbs(integ_hist[i + 1]), DynamicLimit(i))

\* A tick inside the band on which the bound cut the accumulated integral
\* down to a positive L.
C4_Witness ==
    /\ Gt(Ti, Zero) /\ Gt(Kp, Zero) /\ Ge(T_set, params.T_out)
    /\ \E i \in Ticks :
          /\ Lt(e_hist[i], Q(5))
          /\ acc_hist[i] # integ_hist[i + 1]
          /\ integ_hist[i + 1] = DynamicLimit(i)
          /\ Gt(DynamicLimit(i), Zero)

\* C5 as stated, for runs of valid timing: with Kp = 0 an enabled integral term (Ti > 0) is nonzero on
\* some tick of a run that integrated a nonzero error, and an enabled
\* derivative term (Td > 0) is nonzero on some tick of a run whose error
\* changed between two ticks.
C5_AsStated ==
    (ValidTiming /\ pc = "returned" /\ Kp = Zero) =>
        /\ (Gt(Ti, Zero) /\ \E i \in Ticks : i < Len(e_hist) /\ e_hist[i] # Zero)
              => \E r \in Rows : I_term_hist[r] # Zero
        /\ (Gt(Td, Zero) /\ \E i \in Ticks : i > 1 /\ e_hist[i] # e_hist[i - 1])
              => \E r \in Rows : D_term_hist[r] # Zero

\* C5, amended: with Kp = 0 both gains Ki = Kp/Ti and Kd = Kp*Td are zero, so
\* I_term and D_term (and the power) are zero on every tick, whatever Ti and Td.
C5_ZeroKpSilencesAllTerms ==
    Kp = Zero =>
        \A r \in Rows :
            /\ I_term_hist[r] = Zero
            /\ D_term_hist[r] = Zero
            /\ P_hist[r] = Zero

\* A finished run with Kp = 0, both Ti > 0 and Td > 0, a nonzero error before
\* the last tick and an error that changed from one tick to the next.
C5_Witness ==
    /\ pc = "returned" /\ Kp = Zero /\ Gt(Ti, Zero) /\ Gt(Td, Zero)
    /\ \E i \in Ticks : i < Len(e_hist) /\ e_hist[i] # Zero
    /\ \E i \in Ticks : i > 1 /\ e_hist[i] # e_hist[i - 1]

\* Tick i of an uncontrolled run: a = k_loss + k_draw*q_out and
\* b = k_loss*T_out + k_draw*q_out*T_cold, so that T_eq = b / a.
LossRate(i) == Add(params.k_loss, Mul(params.k_draw, q_hist[i + 1]))
LossDrive(i) ==
    Add(Mul(params.k_loss, params.T_out),
        Mul(Mul(params.k_draw, q_hist[i + 1]), params.T_cold))
TEq(i) == Div(LossDrive(i), LossRate(i))
Between(x, a, b) == Le(PyMin(a, b), x) /\ Le(x, PyMax(a, b))
Uncontrolled == Kp = Zero /\ Ti = Zero /\ Td = Zero

\* C6 as stated: with Kp = Ti = Td = 0, in a run of valid timing, on every
\* tick for which T_eq is defined, T_next lies between T and T_eq.
C6_AsStated ==
    (Uncontrolled /\ ValidTiming) =>
        \A i \in Ticks :
            Gt(LossRate(i), Zero) => Between(T_hist[i + 1], T_hist[i], TEq(i))

\* C6, amended: with Kp = Ti = Td = 0 the power is zero on every tick, and on
\* every tick with 0 < dt*(k_loss + k_draw*q_out) <= C the next temperature
\* lies between T and T_eq.
C6_RelaxesWithinStableStep ==
    Uncontrolled =>
        /\ \A r \in Rows : P_hist[r] = Zero
        /\ \A i \in Ticks :
              (Gt(dt, Zero) /\ Gt(LossRate(i), Zero)
                            /\ Le(Mul(dt, LossRate(i)), params.C))
                  => Between(T_hist[i + 1], T_hist[i], TEq(i))

\* An uncontrolled tick within the stable step that moved the temperature
\* strictly toward an equilibrium it had not reached.
C6_Witness ==
    /\ Uncontrolled /\ Gt(dt, Zero)
    /\ \E i \in Ticks :
          /\ Gt(LossRate(i), Zero)
          /\ Lt(Mul(dt, LossRate(i)), params.C)
          /\ T_hist[i] # TEq(i)
          /\ T_hist[i + 1] # T_hist[i]
          /\ q_hist[i + 1] # Zero

\* C7: the first row of the series is time = 0, temperature = T_cold,
\* power = 0, q_out = 0 and zero PID terms, and it exists once the run started.
C7_FirstRowIsInitialCondition ==
    Started =>
        /\ Len(time_hist) >= 1
        /\ time_hist[1] = Zero
        /\ T_hist[1] = params.T_cold
        /\ P_hist[1] = Zero
        /\ q_hist[1] = Zero
        /\ P_term_hist[1] = Zero
        /\ I_term_hist[1] = Zero
        /\ D_term_hist[1] = Zero

\* A finished run of at least one tick whose profile draws water at t = 0,
\* whose ambient differs from the mains and whose controller is active.
C7_Witness ==
    /\ pc = "returned"
    /\ Len(time_hist) >= 2
    /\ QOut(q_out_profile, Zero) # Zero
    /\ params.T_out # params.T_cold
    /\ P_hist[2] # Zero

\* The saturation test of tick i, from the recorded power and error.
SaturatedAt(i) ==
    \/ Ge(P_hist[i + 1], P_max) /\ Gt(e_hist[i], Zero)
    \/ Le(P_hist[i + 1], Zero) /\ Lt(e_hist[i], Zero)

\* C8: with Ti > 0 and Kp > 0, a tick with (P_in >= P_max and e > 0) or
\* (P_in <= 0 and e < 0) leaves the integral unchanged at the accumulation
\* step, and every other tick adds exactly e*dt to it.
C8_ConditionalIntegration ==
    (Gt(Ti, Zero) /\ Gt(Kp, Zero)) =>
        \A i \in Ticks :
            acc_hist[i] = IF SaturatedAt(i)
                          THEN integ_hist[i]
                          ELSE Add(integ_hist[i], Mul(e_hist[i], dt))

\* A run with a tick saturated high, a tick saturated low and a tick that
\* accumulated a nonzero e*dt.
C8_Witness ==
    /\ Gt(Ti, Zero) /\ Gt(Kp, Zero) /\ Gt(P_max, Zero)
    /\ \E i \in Ticks : Ge(P_hist[i + 1], P_max) /\ Gt(e_hist[i], Zero)
    /\ \E i \in Ticks : Le(P_hist[i + 1], Zero) /\ Lt(e_hist[i], Zero)
    /\ \E i \in Ticks : ~SaturatedAt(i) /\ acc_hist[i] # integ_hist[i]

\* Ki as the controller defines it.
KiOf == IF Gt(Ti, Zero) THEN Div(Kp, Ti) ELSE Zero

\* C9: the I_term recorded for tick i is Ki times the integral left by tick
\* i - 1 (0 for the first tick), and the power of tick i is the saturation of
\* P_term + I_term + D_term with that I_term.
C9_ITermUsesPreviousIntegral ==
    \A i \in Ticks :
        /\ I_term_hist[i + 1] = Mul(KiOf, integ_hist[i])
        /\ P_hist[i + 1] =
              PyMax(Zero, PyMin(Add(Add(P_term_hist[i + 1], I_term_hist[i + 1]),
                                    D_term_hist[i + 1]), P_max))
        /\ integ_hist[1] = Zero

\* A tick with Ki # 1 whose I_term is nonzero and whose own update changed
\* the integral.
C9_Witness ==
    /\ KiOf # One
    /\ \E i \in Ticks :
          /\ I_term_hist[i + 1] # Zero
          /\ integ_hist[i + 1] # integ_hist[i]
          /\ Mul(KiOf, integ_hist[i + 1]) # I_term_hist[i + 1]

\* C10: previous_error starts as T_set - T_cold, so with dt > 0 the first
\* tick has D_term = 0; every later tick i has
\* D_term = Kp*Td*(e_i - e_{i-1})/dt if Td > 0 and D_term = 0 otherwise.
C10_DerivativeUsesPreviousError ==
    (Started /\ Gt(dt, Zero)) =>
        /\ Len(e_hist) = 0 => e_prev = Sub(T_set, params.T_cold)
        /\ Len(e_hist) >= 1 => (D_term_hist[2] = Zero /\ e_prev = e_hist[Len(e_hist)])
        /\ \A i \in Ticks :
              i > 1 =>
                 D_term_hist[i + 1] =
                    IF Gt(Td, Zero)
                    THEN Div(Mul(Mul(Kp, Td), Sub(e_hist[i], e_hist[i - 1])), dt)
                    ELSE Zero

\* A run with Kp*Td > 0 whose first error is nonzero and whose second tick
\* has a nonzero D_term.
C10_Witness ==
    /\ Gt(dt, Zero) /\ Gt(Td, Zero) /\ Gt(Kp, Zero)
    /\ Len(e_hist) >= 2
    /\ e_hist[1] # Zero
    /\ D_term_hist[3] # Zero

====
